---------------------------- MODULE Spec2Model ----------------------------
(*************************************************************************)
(* A model of the intrusion detection pipeline of custom-ids-ml:         *)
(*   PacketCapture  -> packet_queue -> FeatureExtractor -> feature_queue *)
(*                                  -> RulesEngine      -> alert_queue   *)
(*   feature_queue -> MLDetectionEngine -> alert_queue                   *)
(*                                                                       *)
(* Conventions.  A Python str is a sequence of character codes, so that  *)
(* sorted() compares as Python does.  Python None in an address field is *)
(* the empty sequence (like "", it is falsy), None in a numeric field is *)
(* -1.  Time is counted in whole seconds.  A float quotient a / b is the *)
(* pair <<a, b>>.                                                        *)
(*************************************************************************)
EXTENDS Integers, Sequences, FiniteSets, TLC

VARIABLES
    now,            \* the wall clock read by datetime.now()
    captured,       \* number of packets sniffed so far
    packet_queue,   \* main.py: self.packet_queue
    feature_queue,  \* main.py: self.feature_queue (every batch ever put)
    alert_queue,    \* main.py: self.alert_queue
    flow_stats,     \* FeatureExtractor.flow_stats, in insertion order
    rules,          \* RulesEngine.rules
    last_check,     \* history: clock value of the latest _generate_features
    ingested,       \* history: packets taken by FeatureExtractor._process_queue
    checked,        \* history: packets taken by RulesEngine._process_queue
    arg,            \* the input of a function under test
    res,            \* <<>>, or <<its result>>
    learning_mode,  \* MLDetectionEngine.learning_mode
    model,          \* MLDetectionEngine.model
    scaler,         \* MLDetectionEngine.scaler
    training_len,   \* len(MLDetectionEngine.training_data)
    batch_queue,    \* the feature queue as the engine reads it: the length
                    \* of each queued batch
    boot,           \* history: what model_path held at construction
    fed,            \* history: number of batches put on batch_queue
    consumed,       \* history: number of vectors the engine took off the queue
    fit_log,        \* history: how each call of _train_model ended
    scored,         \* history: the batches _detect_anomalies predicted on
    stop_flag,      \* the stop Event of each stage
    running,        \* whether the worker thread of each stage is in its loop
    loop_log,       \* history: how each iteration of each worker ended
    workers,        \* per stage, where each thread start_* created is in
                    \* its loop
    joiner,         \* per stage, whether a stop_* call is waiting in join
    stop_mark,      \* history, per stage: the number of iterations done
                    \* when the stop flag was last set
    loader,         \* the rule definitions a running load_rules has still
                    \* to append
    evaluation,     \* the for loop of a running _check_rules: the list it
                    \* iterates and how far it is
    snapshots,      \* history: the rule sets a completed load_rules or
                    \* add_rule left
    evaluations,    \* history: the rules each completed _check_rules saw
    handled,        \* history: the alerts AlertSystem._process_alert got
    recent_alerts   \* IDSApiService.recent_alerts

pathVars == <<now, captured, packet_queue, feature_queue, alert_queue,
              flow_stats, rules, last_check, ingested, checked>>
fnVars == <<arg, res>>
mlVars == <<learning_mode, model, scaler, training_len, batch_queue, boot,
            fed, consumed, fit_log, scored>>
loopVars == <<stop_flag, running, loop_log>>
threadVars == <<workers, joiner, stop_mark>>
reloadVars == <<loader, evaluation, snapshots, evaluations>>
sinkVars == <<handled, recent_alerts>>
otherVars == <<threadVars, reloadVars, sinkVars>>
vars == <<pathVars, fnVars, mlVars, loopVars, otherVars>>

-----------------------------------------------------------------------------
(* Bounds of the model *)

MaxPackets == 6
MaxPipelinePackets == 2
MaxQueue == 1
MaxBurst == 4
MaxTime == 69
MaxKeyPackets == 2
MaxFeatPackets == 3
MaxBatches == 4
MaxOutliers == 1
MaxLoopPackets == 4
MaxLoopBatches == 2
MaxBurstPackets == 5
QueueCapacity == 3
MaxStopPackets == 2
MaxStopBatches == 1
MaxRules == 3
MaxReloadPackets == 2
MaxThreads == 2
MaxRestartPackets == 2
MaxSinkPackets == 3
MaxSkewPackets == 3
MaxTablePackets == 4
TableCapacity == 2
MaxExpiryPackets == 5

-----------------------------------------------------------------------------
(* Values *)

None == <<>>
NoneNum == -1

\* "10.0.0.1", "10.0.0.2", "10.0.0.10" as character codes
Addr1 == <<49, 48, 46, 48, 46, 48, 46, 49>>
Addr2 == <<49, 48, 46, 48, 46, 48, 46, 50>>
Addr10 == <<49, 48, 46, 48, 46, 48, 46, 49, 48>>

Truthy(s) == s /= None

RECURSIVE SeqSum(_)
SeqSum(s) == IF s = <<>> THEN 0 ELSE Head(s) + SeqSum(Tail(s))

RECURSIVE SeqMin(_)
SeqMin(s) ==
    IF Len(s) = 1 THEN s[1]
    ELSE LET m == SeqMin(Tail(s)) IN IF s[1] < m THEN s[1] ELSE m

RECURSIVE SeqMax(_)
SeqMax(s) ==
    IF Len(s) = 1 THEN s[1]
    ELSE LET m == SeqMax(Tail(s)) IN IF s[1] > m THEN s[1] ELSE m

\* a / b and the literal 0 of the rate features
Div(a, b) == <<a, b>>
Zero == <<0, 1>>
FracEq(x, y) == x[1] * y[2] = y[1] * x[2]
FracNonNeg(x) == (x[1] >= 0 /\ x[2] > 0) \/ (x[1] <= 0 /\ x[2] < 0)

\* datetime.isoformat() writes the fields of the instant, fromisoformat()
\* reads them back
Isoformat(t) == <<t \div 60, t % 60>>
FromIsoformat(s) == s[1] * 60 + s[2]

\* str(n) for n >= 0
RECURSIVE Str(_)
Str(n) == IF n < 10 THEN <<48 + n>> ELSE Str(n \div 10) \o <<48 + (n % 10)>>

\* Python's str comparison a <= b
RECURSIVE StrLeq(_, _)
StrLeq(a, b) ==
    IF a = <<>> THEN TRUE
    ELSE IF b = <<>> THEN FALSE
    ELSE IF Head(a) < Head(b) THEN TRUE
    ELSE IF Head(a) > Head(b) THEN FALSE
    ELSE StrLeq(Tail(a), Tail(b))

-----------------------------------------------------------------------------
(* PacketCapture *)

\* A scapy packet: whether it has an IP layer, and the load of its Raw
\* layer (None when it has no Raw layer).  A scapy Packet is always truthy.
Packet(hasIP, src, dst, proto, size, load) ==
    [hasIP |-> hasIP, src |-> src, dst |-> dst, proto |-> proto,
     size |-> size, load |-> load]

ExtractBasicFeatures(packet, id) ==
    [id |-> id,
     timestamp |-> Isoformat(now),
     src_ip |-> IF packet.hasIP THEN packet.src ELSE None,
     dst_ip |-> IF packet.hasIP THEN packet.dst ELSE None,
     protocol |-> IF packet.hasIP THEN packet.proto ELSE NoneNum,
     length |-> packet.size,
     raw_packet |-> [present |-> TRUE, has_raw |-> packet.load /= None,
                     load |-> packet.load]]

-----------------------------------------------------------------------------
(* FeatureExtractor *)

window_size == 60
MinFlowPackets == 5
MinFeaturePackets == 2
NoTime == -1

\* a table entry that counts a packet before any was ingested
DefaultStatsCounted ==
    [packet_count |-> 1, byte_count |-> 0, start_time |-> NoTime,
     last_time |-> NoTime, intervals |-> <<>>, packet_sizes |-> <<>>]

DefaultStats ==
    [packet_count |-> 0, byte_count |-> 0, start_time |-> NoTime,
     last_time |-> NoTime, intervals |-> <<>>, packet_sizes |-> <<>>]

SortedIpsUnsorted(a, b) == <<a, b>>

\* sorted([src_ip, dst_ip])
SortedIps(a, b) == IF StrLeq(a, b) THEN <<a, b>> ELSE <<b, a>>

\* f"{ips[0]}_{ips[1]}_{protocol}" with protocol = packet_info['protocol'] or 0
FlowKey(src_ip, dst_ip, proto) ==
    LET ips == SortedIps(src_ip, dst_ip)
        protocol == IF proto = NoneNum \/ proto = 0 THEN 0 ELSE proto
    IN  ips[1] \o <<95>> \o ips[2] \o <<95>> \o Str(protocol)

KeyIndex(table, key) ==
    IF \E i \in 1..Len(table) : table[i].key = key
    THEN CHOOSE i \in 1..Len(table) : table[i].key = key
    ELSE 0

HasKey(table, key) == KeyIndex(table, key) /= 0

\* self.flow_stats[flow_key] of a defaultdict: creates the entry when absent
Lookup(table, key) ==
    IF HasKey(table, key) THEN table
    ELSE Append(table, [key |-> key, stats |-> DefaultStats])

\* datetime.fromisoformat accepts the string
ParsesIso(s) == Len(s) = 2

\* _update_flow_stats raises: fromisoformat, on a packet that has a flow
UpdateRaises(packet_info) ==
    /\ Truthy(packet_info.src_ip) /\ Truthy(packet_info.dst_ip)
    /\ ~ParsesIso(packet_info.timestamp)

\* the table when _update_flow_stats raises: self.flow_stats[flow_key] has
\* made the entry of a new flow already
UpdateAborted(table, packet_info) ==
    Lookup(table, FlowKey(packet_info.src_ip, packet_info.dst_ip,
                          packet_info.protocol))

UpdateFlowStats(table, packet_info) ==
    IF Truthy(packet_info.src_ip) /\ Truthy(packet_info.dst_ip)
    THEN LET flow_key == FlowKey(packet_info.src_ip, packet_info.dst_ip,
                                 packet_info.protocol)
             t1 == Lookup(table, flow_key)
             i == KeyIndex(t1, flow_key)
             flow == t1[i].stats
             timestamp == FromIsoformat(packet_info.timestamp)
             updated ==
                 [packet_count |-> flow.packet_count + 1,
                  byte_count |-> flow.byte_count + packet_info.length,
                  start_time |-> IF flow.start_time = NoTime THEN timestamp
                                 ELSE flow.start_time,
                  last_time |-> timestamp,
                  intervals |-> IF flow.start_time = NoTime THEN flow.intervals
                                ELSE Append(flow.intervals,
                                            timestamp - flow.last_time),
                  packet_sizes |-> Append(flow.packet_sizes, packet_info.length)]
         IN  [t1 EXCEPT ![i].stats = updated]
    ELSE table

RatesUnguarded(count, duration) == Div(count, duration)

\* packets_per_second / bytes_per_second of _extract_flow_features
Rate(count, duration) == IF duration > 0 THEN Div(count, duration) ELSE Zero

MeanSample(s) == Div(SeqSum(s), Len(s) - 1)

\* np.mean(s)
Mean(s) == Div(SeqSum(s), Len(s))

\* the None returned by _extract_flow_features
NoFeatures == [none |-> TRUE]

EnoughForFeatures(stats) == ~(stats.packet_count < MinFeaturePackets)

\* The std_* features (square roots) are left out.
ExtractFlowFeatures(flow_key, stats) ==
    IF ~EnoughForFeatures(stats) THEN NoFeatures
    ELSE LET duration == stats.last_time - stats.start_time
         IN  [flow_key |-> flow_key,
              timestamp |-> Isoformat(stats.last_time),
              packet_count |-> stats.packet_count,
              byte_count |-> stats.byte_count,
              duration |-> duration,
              packets_per_second |-> Rate(stats.packet_count, duration),
              bytes_per_second |-> Rate(stats.byte_count, duration),
              mean_packet_size |-> Mean(stats.packet_sizes),
              min_packet_size |-> SeqMin(stats.packet_sizes),
              max_packet_size |-> SeqMax(stats.packet_sizes),
              mean_interval |-> IF Len(stats.intervals) > 0
                                THEN Mean(stats.intervals)
                                ELSE Zero]

MatureAtTwo(stats) == ~(stats.packet_count < MinFeaturePackets)

\* the maturity gate of _generate_features
Mature(stats) == ~(stats.packet_count < MinFlowPackets)

\* the flows _generate_features emits and deletes at current_time
Expired(stats, current_time) ==
    /\ stats.last_time /= NoTime
    /\ Mature(stats)
    /\ current_time - stats.last_time > window_size

RemainingKeepAll(table, current_time) == table

\* flow_stats after the del statements of _generate_features
Remaining(table, current_time) ==
    LET Keep(e) == ~Expired(e.stats, current_time)
    IN  SelectSeq(table, Keep)

\* features_batch of _generate_features
FeaturesBatch(table, current_time) ==
    LET Emit(e) == /\ Expired(e.stats, current_time)
                   /\ ExtractFlowFeatures(e.key, e.stats) /= NoFeatures
        out == SelectSeq(table, Emit)
    IN  [i \in 1..Len(out) |-> ExtractFlowFeatures(out[i].key, out[i].stats)]

\* self.feature_queue after _generate_features
PutBatch(queue, batch) == IF batch /= <<>> THEN Append(queue, batch) ELSE queue

-----------------------------------------------------------------------------
(* RulesEngine *)

\* A rule is a dict: a function whose domain is the set of keys it has.
Has(rule, key) == key \in DOMAIN rule

Get(rule, key, default) == IF Has(rule, key) THEN rule[key] ELSE default

\* bytes.decode('utf-8', errors='ignore') over ASCII and the invalid byte 255
Decode(payload) == LET Valid(c) == c < 128 IN SelectSeq(payload, Valid)

\* re.IGNORECASE over ASCII letters
Fold(s) == [i \in 1..Len(s) |-> IF s[i] >= 65 /\ s[i] <= 90 THEN s[i] + 32 ELSE s[i]]

\* compiled_pattern.search(text) for a literal, case-insensitive pattern
Search(pattern, text) ==
    \E i \in 0..(Len(text) - Len(pattern)) :
        Fold(SubSeq(text, i + 1, i + Len(pattern))) = Fold(pattern)

\* load_rules / add_rule attach compiled_pattern to a rule that has a pattern
Compiled(rule) ==
    IF Has(rule, "pattern") THEN rule @@ [compiled_pattern |-> rule.pattern]
    ELSE rule

\* packet_info.get('protocol') is truthy
ProtoTruthy(p) == p /= NoneNum /\ p /= 0

\* lines 73-75: the rule is not skipped by its src_ip condition
SrcFilterPasses(rule, packet_info) ==
    ~(Has(rule, "src_ip") /\ Truthy(packet_info.src_ip)
      /\ rule.src_ip /= packet_info.src_ip)

\* lines 77-79
DstFilterPasses(rule, packet_info) ==
    ~(Has(rule, "dst_ip") /\ Truthy(packet_info.dst_ip)
      /\ rule.dst_ip /= packet_info.dst_ip)

\* lines 82-84
ProtoFilterPasses(rule, packet_info) ==
    ~(Has(rule, "protocol") /\ ProtoTruthy(packet_info.protocol)
      /\ rule.protocol /= packet_info.protocol)

\* lines 87-99: the pattern step and the final test
PatternStepPasses(rule, raw_packet) ==
    IF Has(rule, "compiled_pattern") /\ raw_packet.has_raw
    THEN Search(rule.compiled_pattern, Decode(raw_packet.load))
    ELSE ~Has(rule, "compiled_pattern")

RuleFires(rule, packet_info) ==
    /\ SrcFilterPasses(rule, packet_info)
    /\ DstFilterPasses(rule, packet_info)
    /\ ProtoFilterPasses(rule, packet_info)
    /\ PatternStepPasses(rule, packet_info.raw_packet)

SignatureAlert(rule, packet_info) ==
    [timestamp |-> packet_info.timestamp,
     rule_id |-> Get(rule, "id", "unknown"),
     alert_type |-> "SIGNATURE",
     confidence |-> Get(rule, "confidence", 1),
     description |-> Get(rule, "description", "Signature match"),
     src_ip |-> packet_info.src_ip,
     dst_ip |-> packet_info.dst_ip,
     protocol |-> packet_info.protocol]

\* A rule read from YAML is a mapping, or a scalar such as a bare string.
\* On a str, "key in rule" is a substring test (false for the keys below)
\* and rule.get raises AttributeError.
IsMapping(rule) == ~Has(rule, "scalar")

\* the index of the first rule whose evaluation raises, 0 when none does
FirstRaising(rule_set) ==
    IF \E i \in 1..Len(rule_set) : ~IsMapping(rule_set[i])
    THEN CHOOSE i \in 1..Len(rule_set) :
            /\ ~IsMapping(rule_set[i])
            /\ \A j \in 1..(i - 1) : IsMapping(rule_set[j])
    ELSE 0

\* _check_rules: the alerts it puts on the alert queue, in rule order, and
\* whether it raises
CheckRules(rule_set, packet_info) ==
    IF ~packet_info.raw_packet.present THEN [alerts |-> <<>>, raised |-> FALSE]
    ELSE LET stop == FirstRaising(rule_set)
             seen == IF stop = 0 THEN rule_set ELSE SubSeq(rule_set, 1, stop - 1)
             Fires(rule) == RuleFires(rule, packet_info)
             fired == SelectSeq(seen, Fires)
         IN  [alerts |-> [i \in 1..Len(fired) |->
                             SignatureAlert(fired[i], packet_info)],
              raised |-> stop /= 0]

-----------------------------------------------------------------------------
(* MLDetectionEngine *)

max_training_samples == 10000
MinTrainingSamples == 1000

\* self.model / self.scaler: None, or an estimator, which fit made it
\* (0: the persisted artifacts, k: the k-th call of _train_model) and
\* whether it has been fitted
NoObj == [present |-> FALSE, fit |-> 0, fitted |-> FALSE]
Obj(fit, fitted) == [present |-> TRUE, fit |-> fit, fitted |-> fitted]

\* what model_path holds at startup: nothing, the scorer, scorer and scaler
Artifacts == {"none", "model", "both"}

\* _load_model: returns the scorer, sets self.scaler when its file exists
LoadModel(artifacts) ==
    [model |-> IF artifacts \in {"model", "both"} THEN Obj(0, TRUE) ELSE NoObj,
     scaler |-> IF artifacts = "both" THEN Obj(0, TRUE) ELSE NoObj]

\* __init__ lines 17-18: self.model = self._load_model() ...; self.scaler = None
Constructed(artifacts) ==
    [model |-> LoadModel(artifacts).model, scaler |-> NoObj]

\* the ways _train_model may end: it completes, or StandardScaler
\* .fit_transform, IsolationForest.fit or joblib.dump raises
TrainOutcomes == {"ok", "scale_raised", "fit_raised", "dump_raised"}

\* _train_model: self.scaler is assigned before fit_transform, self.model
\* before fit; the except clause leaves what was assigned so far
TrainModel(old, fit, outcome) ==
    CASE outcome = "scale_raised" ->
             [model |-> old.model, scaler |-> Obj(fit, FALSE)]
      [] outcome = "fit_raised" ->
             [model |-> Obj(fit, FALSE), scaler |-> Obj(fit, TRUE)]
      [] OTHER ->
             [model |-> Obj(fit, TRUE), scaler |-> Obj(fit, TRUE)]

\* len(self.training_data) after lines 59-60
Extended(len, n) == IF len < max_training_samples THEN len + n ELSE len

TrainingDueLate(len, n, m, learning) ==
    /\ len < max_training_samples
    /\ Extended(len, n) > MinTrainingSamples
    /\ (~m.present \/ learning)

\* lines 59-63: whether this batch leads to _train_model
TrainingDue(len, n, m, learning) ==
    /\ len < max_training_samples
    /\ Extended(len, n) >= MinTrainingSamples
    /\ (~m.present \/ learning)

\* bool(self.model): None is false; an ensemble is as true as it has
\* estimators_, and an unfitted one has none to count (AttributeError)
ModelTruth(m) ==
    IF ~m.present THEN "false" ELSE IF m.fitted THEN "true" ELSE "raises"

\* _detect_anomalies gets as far as predict: self.scaler.transform raises
\* on None and on an unfitted scaler, and the except clause ends the call
Predicts(sc) == sc.present /\ sc.fitted

AnomalyAlert(m, sc) ==
    [alert_type |-> "ANOMALY",
     description |-> "Anomalous network flow detected",
     model_fit |-> m.fit, scaler_fit |-> sc.fit]

\* One iteration of _detection_loop on a batch of n vectors, when
\* _train_model (if called) ends with outcome and predict flags k vectors.
DetectionIteration(n, outcome, k) ==
    IF n = 0
    THEN [model |-> model, scaler |-> scaler, training_len |-> training_len,
          fit_log |-> fit_log, scored |-> scored, alerts |-> <<>>,
          raised |-> FALSE]
    ELSE LET len1 == Extended(training_len, n)
             trains == TrainingDue(training_len, n, model, learning_mode)
             old == [model |-> model, scaler |-> scaler]
             new == IF trains THEN TrainModel(old, Len(fit_log) + 1, outcome)
                    ELSE old
             truth == ModelTruth(new.model)
             scores == truth = "true" /\ ~learning_mode /\ Predicts(new.scaler)
         IN  [model |-> new.model, scaler |-> new.scaler,
              training_len |-> len1,
              fit_log |-> IF trains THEN Append(fit_log, outcome) ELSE fit_log,
              scored |-> IF scores
                         THEN Append(scored, [n |-> n, model_fit |-> new.model.fit,
                                              scaler_fit |-> new.scaler.fit])
                         ELSE scored,
              alerts |-> IF scores
                         THEN [i \in 1..k |-> AnomalyAlert(new.model, new.scaler)]
                         ELSE <<>>,
              raised |-> truth = "raises"]

-----------------------------------------------------------------------------
(* The worker loops *)

Stages == {"flow", "rules", "ml"}

LoopBreaksOnError(raised) == ~raised

\* whether the while loop is still running after an iteration: the except
\* Exception clause is inside the loop
LoopContinues(raised) == TRUE

Outcome(raised) == IF raised THEN "raised" ELSE "ok"

\* the loop of stage w has finished an iteration
Iterated(w, raised) ==
    /\ running' = [running EXCEPT ![w] = LoopContinues(raised)]
    /\ loop_log' = [loop_log EXCEPT ![w] = Append(@, Outcome(raised))]
    /\ UNCHANGED stop_flag

\* while not self.stop_..._flag.is_set()
InLoop(w) == running[w] /\ ~stop_flag[w]

-----------------------------------------------------------------------------
(* The packet path: PacketCapture, FeatureExtractor, RulesEngine *)

\* the packet lengths of the replayed capture, in order (cyclically)
E2ESizes == <<100, 150, 120>>

SizeAt(i) == E2ESizes[((i - 1) % Len(E2ESizes)) + 1]

\* what sniff() may hand to _process_packet as its i-th packet
FlowPackets(i) ==
    {Packet(TRUE, Addr1, Addr2, 6, SizeAt(i), None),
     Packet(TRUE, Addr2, Addr1, 6, SizeAt(i), None)}

PipelinePackets(i) ==
    {Packet(TRUE, Addr1, Addr2, 6, 100, None),
     Packet(TRUE, Addr2, Addr1, 6, 100, None),
     Packet(FALSE, None, None, NoneNum, 60, None)}

\* seconds passing between two events: one second inside a burst of
\* packets, or an idle gap
Gaps == {1, 63, 65}

\* the instants of the model: a burst, an idle gap, what follows
Clock == (0..MaxBurst) \cup (63..MaxTime)

InitPath ==
    /\ now = 0
    /\ captured = 0
    /\ packet_queue = <<>>
    /\ feature_queue = <<>>
    /\ alert_queue = <<>>
    /\ flow_stats = <<>>
    /\ rules = <<>>
    /\ last_check = NoTime
    /\ ingested = <<>>
    /\ checked = <<>>

InitFn ==
    /\ arg = <<>>
    /\ res = <<>>

\* the engine as main.py constructs it from what model_path holds
InitEngine(artifacts, learning) ==
    /\ learning_mode = learning
    /\ model = Constructed(artifacts).model
    /\ scaler = Constructed(artifacts).scaler
    /\ training_len = 0
    /\ batch_queue = <<>>
    /\ boot = artifacts
    /\ fed = 0
    /\ consumed = 0
    /\ fit_log = <<>>
    /\ scored = <<>>

InitMl == InitEngine("none", FALSE)

\* load_rules is not running
NoLoad == [active |-> FALSE, pending |-> <<>>]

\* _check_rules is not in its for loop
NoEvaluation ==
    [active |-> FALSE, live |-> TRUE, list |-> <<>>, idx |-> 0, seen |-> <<>>,
     packet_info |-> <<>>]

\* no load_rules and no _check_rules under way
InitReload ==
    /\ loader = NoLoad
    /\ evaluation = NoEvaluation
    /\ snapshots = {}
    /\ evaluations = <<>>

\* no alert consumed yet
InitSink ==
    /\ handled = <<>>
    /\ recent_alerts = <<>>

\* every stage started, no stop requested
InitLoops ==
    /\ stop_flag = [w \in Stages |-> FALSE]
    /\ running = [w \in Stages |-> TRUE]
    /\ loop_log = [w \in Stages |-> <<>>]
    /\ workers = [w \in Stages |-> <<"test">>]
    /\ joiner = [w \in Stages |-> "idle"]
    /\ stop_mark = [w \in Stages |-> 0]
    /\ InitReload
    /\ InitSink

Tick ==
    /\ \E d \in Gaps : now + d \in Clock /\ now' = now + d
    /\ UNCHANGED <<captured, packet_queue, feature_queue, alert_queue,
                   flow_stats, rules, last_check, ingested, checked>>
    /\ UNCHANGED <<fnVars, mlVars, loopVars, otherVars>>

\* queue.Queue(): maxsize 0, a queue of any length
maxsize == 0

\* Queue.full(): put blocks on a full queue, and a queue with maxsize 0 is
\* never full
Full(queue) == maxsize > 0 /\ Len(queue) >= maxsize

\* PacketCapture._process_packet: the sniffer puts the event of a packet
Sniffed(packets, max) ==
    /\ captured < max
    /\ ~Full(packet_queue)
    /\ \E packet \in packets :
           packet_queue' =
               Append(packet_queue, ExtractBasicFeatures(packet, captured + 1))
    /\ captured' = captured + 1
    /\ UNCHANGED <<now, feature_queue, alert_queue, flow_stats, rules,
                   last_check, ingested, checked>>
    /\ UNCHANGED <<fnVars, mlVars, loopVars, otherVars>>

\* PacketCapture._process_packet, while at most MaxQueue events wait
Capture(packets, max) ==
    /\ captured < max
    /\ Len(packet_queue) < MaxQueue
    /\ \E packet \in packets :
           packet_queue' =
               Append(packet_queue, ExtractBasicFeatures(packet, captured + 1))
    /\ captured' = captured + 1
    /\ UNCHANGED <<now, feature_queue, alert_queue, flow_stats, rules,
                   last_check, ingested, checked>>
    /\ UNCHANGED <<fnVars, mlVars, loopVars, otherVars>>

\* the history entry of a packet a worker took from the queue
Taken(packet_info) ==
    [id |-> packet_info.id, timestamp |-> packet_info.timestamp,
     length |-> packet_info.length,
     flow |-> IF Truthy(packet_info.src_ip) /\ Truthy(packet_info.dst_ip)
              THEN FlowKey(packet_info.src_ip, packet_info.dst_ip,
                           packet_info.protocol)
              ELSE None]

\* the body of FeatureExtractor._process_queue's loop when get returns a
\* packet
FlowIteration ==
    /\ packet_queue /= <<>>
    /\ LET packet_info == Head(packet_queue)
           raised == UpdateRaises(packet_info)
           updated == UpdateFlowStats(flow_stats, packet_info)
       IN  /\ IF raised
              THEN /\ flow_stats' = UpdateAborted(flow_stats, packet_info)
                   /\ UNCHANGED <<feature_queue, last_check>>
              ELSE /\ flow_stats' = Remaining(updated, now)
                   /\ feature_queue' =
                          PutBatch(feature_queue, FeaturesBatch(updated, now))
                   /\ last_check' = now
           /\ ingested' = Append(ingested, Taken(packet_info))
           /\ Iterated("flow", raised)
    /\ packet_queue' = Tail(packet_queue)
    /\ UNCHANGED <<now, captured, alert_queue, rules, checked>>
    /\ UNCHANGED <<fnVars, mlVars>>

\* one iteration of FeatureExtractor._process_queue that gets a packet
FlowWorker ==
    /\ InLoop("flow")
    /\ FlowIteration
    /\ UNCHANGED otherVars

\* the body of RulesEngine._process_queue's loop when get returns a packet
RulesIteration ==
    /\ packet_queue /= <<>>
    /\ LET packet_info == Head(packet_queue)
           result == CheckRules(rules, packet_info)
       IN  /\ alert_queue' = alert_queue \o result.alerts
           /\ checked' = Append(checked, Taken(packet_info))
           /\ res' = IF arg = <<>> THEN res ELSE <<result.alerts>>
           /\ Iterated("rules", result.raised)
    /\ packet_queue' = Tail(packet_queue)
    /\ UNCHANGED <<now, captured, feature_queue, flow_stats, rules,
                   last_check, ingested, arg>>
    /\ UNCHANGED mlVars

\* one iteration of RulesEngine._process_queue that gets a packet
RulesWorker ==
    /\ InLoop("rules")
    /\ RulesIteration
    /\ UNCHANGED otherVars

CapturePipeline == Capture(PipelinePackets(captured + 1), MaxPipelinePackets)

Next == Tick \/ CapturePipeline \/ FlowWorker \/ RulesWorker

Init == InitPath /\ InitFn /\ InitMl /\ InitLoops

\* the pipeline as main.py wires it: one packet queue, two consumers
Spec == Init /\ [][Next]_vars

CaptureFlow == Capture(FlowPackets(captured + 1), MaxPackets)

NextFlow == Tick \/ CaptureFlow \/ FlowWorker

\* the flow tracker with the packet queue to itself
SpecFlow == Init /\ [][NextFlow]_vars

-----------------------------------------------------------------------------
(* flow_key as a function: both directions of one conversation *)

KeyAddrs == {Addr1, Addr2, Addr10, <<57>>}
KeyProtos == {NoneNum, 0, 6, 17}

InitKey ==
    /\ InitPath /\ InitMl /\ InitLoops
    /\ arg \in [src : KeyAddrs, dst : KeyAddrs, proto : KeyProtos]
    /\ res = <<>>

\* a packet from src to dst (100 bytes) or from dst to src (150 bytes)
CaptureKey ==
    Capture({Packet(TRUE, arg.src, arg.dst, arg.proto, 100, None),
             Packet(TRUE, arg.dst, arg.src, arg.proto, 150, None)},
            MaxKeyPackets)

NextKey == CaptureKey \/ FlowWorker

SpecKey == InitKey /\ [][NextKey]_vars

-----------------------------------------------------------------------------
(* _extract_flow_features as a function of a FlowState *)

FeatTimes == {0, 1, 3}
FeatSizes == {60, 1500}

FeatPacket(t, size) ==
    [id |-> 0, timestamp |-> Isoformat(t), src_ip |-> Addr1, dst_ip |-> Addr2,
     protocol |-> 6, length |-> size,
     raw_packet |-> [present |-> TRUE, has_raw |-> FALSE, load |-> None]]

\* the flow table after _update_flow_stats has seen the packets in turn
RECURSIVE IngestAll(_, _)
IngestAll(table, packets) ==
    IF packets = <<>> THEN table
    ELSE IngestAll(UpdateFlowStats(table, Head(packets)), Tail(packets))

\* the FlowStates of up to MaxFeatPackets packets, whose timestamps may
\* repeat or step back with the wall clock
FeatStates ==
    {DefaultStats} \cup
    {IngestAll(<<>>, [i \in 1..n |-> FeatPacket(ts[i], sz[i])])[1].stats :
        <<n, ts, sz>> \in
            UNION {{<<m, t, z>> : t \in [1..m -> FeatTimes],
                                  z \in [1..m -> FeatSizes]} :
                   m \in 1..MaxFeatPackets}}

InitFeat ==
    /\ InitPath /\ InitMl /\ InitLoops
    /\ arg \in [key : {FlowKey(Addr1, Addr2, 6)}, stats : FeatStates]
    /\ res = <<>>

Extract ==
    /\ res = <<>>
    /\ res' = <<ExtractFlowFeatures(arg.key, arg.stats)>>
    /\ UNCHANGED <<pathVars, arg, mlVars, loopVars, otherVars>>

NextFeat == Extract

SpecFeat == InitFeat /\ [][NextFeat]_vars

-----------------------------------------------------------------------------
(* _check_rules on one packet event *)

\* "malware", "MALWARE", "ok" and "mal", an invalid byte, "ware"
TextMalware == <<109, 97, 108, 119, 97, 114, 101>>
TextMALWARE == <<77, 65, 76, 87, 65, 82, 69>>
TextOk == <<111, 107>>
TextSplit == <<109, 97, 108, 255, 119, 97, 114, 101>>

RuleSrc == [id |-> "src", src_ip |-> Addr1]
RuleSrcPattern == [id |-> "src-pattern", src_ip |-> Addr1, pattern |-> TextMalware]
RuleProto == [id |-> "proto", protocol |-> 6, confidence |-> 2]
RuleDst == [id |-> "dst", dst_ip |-> Addr2, description |-> "to 10.0.0.2"]
RulePattern == [pattern |-> TextMalware]

\* self.rules after load_rules has read the rule definitions
LoadRules(rule_defs) == [i \in 1..Len(rule_defs) |-> Compiled(rule_defs[i])]

RuleFiles ==
    {<<>>, <<RuleSrc>>, <<RuleSrc, RuleSrcPattern>>, <<RuleProto, RuleDst>>,
     <<RulePattern>>, <<RulePattern, RuleDst, RuleSrc>>}

\* packet_info['raw_packet']: absent, a packet without a Raw layer, or a
\* packet with a Raw layer
RawPackets ==
    {[present |-> FALSE, has_raw |-> FALSE, load |-> None],
     [present |-> TRUE, has_raw |-> FALSE, load |-> None]}
    \cup {[present |-> TRUE, has_raw |-> TRUE, load |-> l] :
              l \in {TextMalware, TextMALWARE, TextOk, TextSplit}}

\* the packet events a producer may put on the packet queue
Events ==
    {[id |-> 1, timestamp |-> Isoformat(0), src_ip |-> s, dst_ip |-> d,
      protocol |-> p, length |-> 100, raw_packet |-> r] :
        s \in {None, Addr1, Addr2}, d \in {None, Addr2},
        p \in {NoneNum, 0, 6, 17}, r \in RawPackets}

\* an event is on the packet queue of a started rule engine; res will keep
\* the alerts of the event
InitRules ==
    /\ InitMl /\ InitLoops
    /\ now = 0
    /\ captured = 1
    /\ arg \in Events
    /\ packet_queue = <<arg>>
    /\ feature_queue = <<>>
    /\ alert_queue = <<>>
    /\ flow_stats = <<>>
    /\ rules \in {LoadRules(f) : f \in RuleFiles}
    /\ last_check = NoTime
    /\ ingested = <<>>
    /\ checked = <<>>
    /\ res = <<>>

NextRules == RulesWorker

SpecRules == InitRules /\ [][NextRules]_vars

-----------------------------------------------------------------------------
(* The anomaly engine on batches of feature vectors *)

\* the lengths of the batches FeatureExtractor puts (it puts no empty one)
BatchSizes == {1, 499, 500, 999, 9000}

\* FeatureExtractor puts a batch on the feature queue
PutFeatures(sizes, max) ==
    /\ fed < max
    /\ Len(batch_queue) < MaxQueue
    /\ \E n \in sizes : batch_queue' = Append(batch_queue, n)
    /\ fed' = fed + 1
    /\ UNCHANGED <<learning_mode, model, scaler, training_len, boot, consumed,
                   fit_log, scored>>
    /\ UNCHANGED <<pathVars, fnVars, loopVars, otherVars>>

\* the body of _detection_loop's loop when get returns a batch
DetectionStep ==
    /\ batch_queue /= <<>>
    /\ \E outcome \in TrainOutcomes, k \in 0..MaxOutliers :
           LET n == Head(batch_queue)
               it == DetectionIteration(n, outcome, k)
           IN  /\ k <= n
               /\ model' = it.model
               /\ scaler' = it.scaler
               /\ training_len' = it.training_len
               /\ fit_log' = it.fit_log
               /\ scored' = it.scored
               /\ alert_queue' = alert_queue \o it.alerts
               /\ consumed' = consumed + n
               /\ Iterated("ml", it.raised)
    /\ batch_queue' = Tail(batch_queue)
    /\ UNCHANGED <<learning_mode, boot, fed>>
    /\ UNCHANGED <<now, captured, packet_queue, feature_queue, flow_stats,
                   rules, last_check, ingested, checked>>
    /\ UNCHANGED fnVars

\* one iteration of _detection_loop that gets a batch
DetectionWorker ==
    /\ InLoop("ml")
    /\ DetectionStep
    /\ UNCHANGED otherVars

InitML ==
    /\ InitPath /\ InitFn /\ InitLoops
    /\ \E artifacts \in Artifacts, learning \in BOOLEAN :
           InitEngine(artifacts, learning)

PutBatches == PutFeatures(BatchSizes, MaxBatches)

NextML == PutBatches \/ DetectionWorker

SpecML == InitML /\ [][NextML]_vars

-----------------------------------------------------------------------------
(* The three consumer loops, with items that make the processing raise *)

\* a rule file with a mapping and a bare string
ScalarRule == [scalar |-> TextOk]
LoopRules == <<RuleSrc, ScalarRule>>

\* the id-th event the producer of the packet queue puts: a packet event as
\* PacketCapture makes it, every other one with a timestamp that does not
\* parse
LoopEvents(id) ==
    LET event == ExtractBasicFeatures(Packet(TRUE, Addr1, Addr2, 6, 100, None), id)
    IN  IF id % 2 = 1 THEN {[event EXCEPT !.timestamp = <<>>]} ELSE {event}

Produce ==
    /\ captured < MaxLoopPackets
    /\ Len(packet_queue) < MaxQueue
    /\ \E event \in LoopEvents(captured + 1) :
           packet_queue' = Append(packet_queue, event)
    /\ captured' = captured + 1
    /\ UNCHANGED <<now, feature_queue, alert_queue, flow_stats, rules,
                   last_check, ingested, checked>>
    /\ UNCHANGED <<fnVars, mlVars, loopVars, otherVars>>

PutLoopBatches == PutFeatures({1000}, MaxLoopBatches)

\* stop() of a stage sets its flag
Stop ==
    /\ \E w \in Stages :
           /\ ~stop_flag[w]
           /\ stop_flag' = [stop_flag EXCEPT ![w] = TRUE]
    /\ UNCHANGED <<running, loop_log>>
    /\ UNCHANGED <<pathVars, fnVars, mlVars, otherVars>>

\* the while condition of a stage's loop is false: the thread ends
Exit ==
    /\ \E w \in Stages :
           /\ running[w] /\ stop_flag[w]
           /\ running' = [running EXCEPT ![w] = FALSE]
    /\ UNCHANGED <<stop_flag, loop_log>>
    /\ UNCHANGED <<pathVars, fnVars, mlVars, otherVars>>

InitLoop ==
    /\ InitFn /\ InitMl /\ InitLoops
    /\ now = 0
    /\ captured = 0
    /\ packet_queue = <<>>
    /\ feature_queue = <<>>
    /\ alert_queue = <<>>
    /\ flow_stats = <<>>
    /\ rules = LoadRules(LoopRules)
    /\ last_check = NoTime
    /\ ingested = <<>>
    /\ checked = <<>>

NextLoop ==
    \/ Produce \/ FlowWorker \/ RulesWorker
    \/ PutLoopBatches \/ DetectionWorker
    \/ Stop \/ Exit

SpecLoop == InitLoop /\ [][NextLoop]_vars

-----------------------------------------------------------------------------
(* Helpers of the properties *)

Range(s) == {s[i] : i \in 1..Len(s)}

Ids(log) == {log[i].id : i \in 1..Len(log)}

QueuedIds == {packet_queue[i].id : i \in 1..Len(packet_queue)}

\* every feature vector ever put on the feature queue
RECURSIVE Flatten(_)
Flatten(batches) ==
    IF batches = <<>> THEN <<>> ELSE Head(batches) \o Flatten(Tail(batches))

Vectors == Flatten(feature_queue)

\* the packets counted by a sequence of feature vectors / of table entries
PacketsInVectors(vs) == SeqSum([i \in 1..Len(vs) |-> vs[i].packet_count])
PacketsInEntries(es) == SeqSum([i \in 1..Len(es) |-> es[i].stats.packet_count])

-----------------------------------------------------------------------------
(* C1 *)

\* C1 (as claimed): every packet that has left the packet queue has been
\* evaluated by the rule worker and ingested by the flow worker.
C1_BothWorkersSeeEveryPacket ==
    \A i \in 1..captured :
        i \notin QueuedIds => (i \in Ids(ingested) /\ i \in Ids(checked))

-----------------------------------------------------------------------------
(* C3 *)

\* C3: no feature vector on the feature queue comes from a flow with fewer
\* than 5 packets, and the packets of such a flow all stay in the table.
C3_MaturityGate ==
    /\ \A i \in 1..Len(Vectors) : Vectors[i].packet_count >= 5
    /\ Len(ingested) < 5 => feature_queue = <<>>

\* a flow of 1..4 packets has seen an expiry check more than 60 s after its
\* last packet and is still in the table, nothing was emitted
C3_Witness ==
    /\ feature_queue = <<>>
    /\ \E i \in 1..Len(flow_stats) :
           /\ flow_stats[i].stats.packet_count \in 1..4
           /\ last_check - flow_stats[i].stats.last_time > 60

-----------------------------------------------------------------------------
(* C4 *)

IngestedOf(key) == LET Of(t) == t.flow = key IN SelectSeq(ingested, Of)
VectorsOf(key) == LET Of(v) == v.flow_key = key IN SelectSeq(Vectors, Of)
EntriesOf(key) == LET Of(e) == e.key = key IN SelectSeq(flow_stats, Of)

FlowKeys == {ingested[i].flow : i \in 1..Len(ingested)} \ {None}

\* C4 (as claimed): once an expiry check has run at now = 65, the flow that
\* received its three packets at t = 0, 1, 2 is no longer in the flow table.
C4_ThreePacketFlowDrained ==
    \A i \in 1..Len(flow_stats) :
        (/\ flow_stats[i].stats.packet_count = 3
         /\ flow_stats[i].stats.start_time = 0
         /\ flow_stats[i].stats.intervals = <<1, 1>>) => last_check /= 65

\* C4 (amended): after an expiry check no flow of 5 or more packets that was
\* idle for more than 60 s at the check is left in the table, and every
\* packet ingested for a key is counted either by the table's entry for the
\* key or by exactly one feature vector on the feature queue: a drained flow
\* is returned once, and no later check returns it again.
C4_MatureIdleFlowDrainedOnce ==
    /\ \A i \in 1..Len(flow_stats) :
           flow_stats[i].stats.packet_count >= 5
               => last_check - flow_stats[i].stats.last_time <= 60
    /\ \A key \in FlowKeys :
           Len(IngestedOf(key)) = PacketsInEntries(EntriesOf(key))
                                  + PacketsInVectors(VectorsOf(key))

\* five packets, the last at t = 2, were drained by the check at now = 65;
\* a sixth packet was ingested by a later check, which returned nothing
C4_Witness ==
    /\ Len(ingested) = 6
    /\ Len(Vectors) = 1
    /\ Vectors[1].packet_count = 5
    /\ Vectors[1].timestamp = Isoformat(2)
    /\ Len(flow_stats) = 1
    /\ flow_stats[1].key = Vectors[1].flow_key
    /\ flow_stats[1].stats.packet_count = 1
    /\ flow_stats[1].stats.start_time = 65

-----------------------------------------------------------------------------
(* C5 *)

Timestamps(log) == [i \in 1..Len(log) |-> FromIsoformat(log[i].timestamp)]
Lengths(log) == [i \in 1..Len(log) |-> log[i].length]

-----------------------------------------------------------------------------
(* C2 *)

\* C2: for all addresses A, B and every protocol P the key of (A, B, P) is
\* the key of (B, A, P), and packets of both directions are counted by one
\* and the same entry of the flow table.
C2_FlowKeySymmetry ==
    /\ FlowKey(arg.src, arg.dst, arg.proto) = FlowKey(arg.dst, arg.src, arg.proto)
    /\ Len(flow_stats) <= 1
    /\ ingested /= <<>> =>
           /\ Len(flow_stats) = 1
           /\ flow_stats[1].key = FlowKey(arg.src, arg.dst, arg.proto)
           /\ flow_stats[1].stats.packet_count = Len(ingested)

\* a packet from A to B and then one from B to A, A /= B, in one entry
C2_Witness ==
    /\ arg.src /= arg.dst
    /\ StrLeq(arg.dst, arg.src)
    /\ Len(flow_stats) = 1
    /\ flow_stats[1].stats.packet_sizes = <<100, 150>>

-----------------------------------------------------------------------------
(* C6 *)

\* C6: a FlowState of fewer than 2 packets yields none; otherwise, with
\* duration = last_time - start_time, a positive duration yields the
\* non-negative rates packet_count / duration and byte_count / duration, a
\* duration <= 0 yields the rates 0 and 0, and nothing is divided by zero.
C6_Rates ==
    res /= <<>> =>
        LET stats == arg.stats
            f == res[1]
            duration == stats.last_time - stats.start_time
        IN  IF stats.packet_count < 2 THEN f = NoFeatures
            ELSE /\ f /= NoFeatures
                 /\ f.packets_per_second[2] /= 0
                 /\ f.bytes_per_second[2] /= 0
                 /\ duration > 0 =>
                        /\ f.packets_per_second = <<stats.packet_count, duration>>
                        /\ f.bytes_per_second = <<stats.byte_count, duration>>
                        /\ FracNonNeg(f.packets_per_second)
                        /\ FracNonNeg(f.bytes_per_second)
                 /\ duration <= 0 =>
                        /\ f.packets_per_second = <<0, 1>>
                        /\ f.bytes_per_second = <<0, 1>>

\* the extractor has run on a flow of 3 packets whose last packet carries
\* the timestamp of the first
C6_Witness ==
    /\ res /= <<>>
    /\ arg.stats.packet_count = 3
    /\ arg.stats.last_time = arg.stats.start_time
    /\ res[1].packets_per_second = <<0, 1>>

-----------------------------------------------------------------------------
(* C7 *)

\* the rules with a src_ip filter and no other condition
SrcOnly(rule) ==
    /\ Has(rule, "src_ip")
    /\ DOMAIN rule \subseteq {"id", "src_ip", "description", "confidence"}

AlertsOf(rule, alerts) ==
    LET Of(a) == a.rule_id = Get(rule, "id", "unknown") /\ a.alert_type = "SIGNATURE"
    IN  SelectSeq(alerts, Of)

\* C7 (as claimed): a rule with a src_ip filter and no pattern emits a
\* SIGNATURE alert for every event whose source address is the rule's,
\* whether or not the event carries a payload or a raw packet, and emits
\* none for an event from another source address.
C7_SrcRuleMatchesEveryPacketFromSrc ==
    res /= <<>> =>
        \A i \in 1..Len(rules) :
            SrcOnly(rules[i]) =>
                /\ arg.src_ip = rules[i].src_ip
                       => Len(AlertsOf(rules[i], res[1])) = 1
                /\ (Truthy(arg.src_ip) /\ arg.src_ip /= rules[i].src_ip)
                       => AlertsOf(rules[i], res[1]) = <<>>

-----------------------------------------------------------------------------
(* C8 *)

\* the engine was constructed without a model and runs in detection mode
Bootstrapping == boot = "none" /\ ~learning_mode

\* _train_model replaced scorer and scaler (the dump comes after both fits)
Completed(outcome) == outcome \in {"ok", "dump_raised"}

Trained ==
    /\ model.present /\ model.fitted
    /\ scaler.present /\ scaler.fitted

\* C8: an engine that starts without a model in detection mode has no model
\* and has not trained while at most 999 vectors have been fed to it, in any
\* split into batches; once 1,000 have been fed the batch that reached 1,000
\* has called _train_model, and when the latest call completed the engine
\* has a fitted model and a fitted scaler.
C8_AnomalyBootstrap ==
    Bootstrapping =>
        /\ consumed <= 999 => ~model.present /\ fit_log = <<>>
        /\ consumed >= 1000 =>
               /\ fit_log /= <<>>
               /\ Completed(fit_log[Len(fit_log)]) => Trained

\* 1,000 vectors arrived in more than one batch and the training completed
C8_Witness ==
    /\ Bootstrapping
    /\ consumed = 1000
    /\ Len(loop_log["ml"]) >= 2
    /\ fit_log = <<"ok">>
    /\ Trained

-----------------------------------------------------------------------------
(* C9 *)

\* C9: whenever scoring can run (a model is present, detection mode) the
\* scorer is fitted and the scaler is present, fitted and of the same fit;
\* a scaler is never paired with a scorer of another fit, and a scorer that
\* is present is fitted.
C9_AtomicModelSwap ==
    /\ (model.present /\ ~learning_mode) =>
           /\ model.fitted
           /\ scaler.present /\ scaler.fitted
           /\ scaler.fit = model.fit
    /\ (model.present /\ scaler.present) => scaler.fit = model.fit
    /\ model.present => model.fitted

-----------------------------------------------------------------------------
(* C10 *)

\* C10: the loop of a stage ends only after its stop flag is set, whatever
\* the items it processed raised: while the flag is clear the worker is in
\* its loop, ready to take the next queued item.
C10_LoopSurvivesErrors ==
    \A w \in Stages : ~stop_flag[w] => running[w]

\* in every stage an item raised and the loop processed the item after it
C10_Witness ==
    /\ \A w \in Stages : ~stop_flag[w]
    /\ loop_log["flow"] = <<"raised", "ok">>
    /\ loop_log["rules"] = <<"raised", "raised">>
    /\ loop_log["ml"] = <<"raised", "raised">>

-----------------------------------------------------------------------------
(* C11 *)

\* the sniffer at full speed: nothing in _process_packet waits for the
\* consumers of the packet queue
CaptureBurst == Sniffed(PipelinePackets(captured + 1), MaxBurstPackets)

NextBurst == CaptureBurst \/ FlowWorker \/ RulesWorker

SpecBurst == Init /\ [][NextBurst]_vars

\* C11: the packet, feature and alert queues never hold more items than a
\* configured capacity (here QueueCapacity): a producer that finds its
\* queue full blocks or drops.
C11_QueuesBounded ==
    /\ Len(packet_queue) <= QueueCapacity
    /\ Len(batch_queue) <= QueueCapacity
    /\ Len(alert_queue) <= QueueCapacity

-----------------------------------------------------------------------------
(* The threads of a stage: start, the consumer loop step by step, stop *)

\* the queue the worker of a stage reads
QueueOf(w) == IF w = "ml" THEN batch_queue ELSE packet_queue

\* the threads of a stage that have not left the loop
Live(ws) == {i \in 1..Len(ws) : ws[i] /= "exited"}

\* start_processing / start_detection: clears the flag, creates a thread
\* and starts it
StartStage(w) ==
    /\ joiner[w] = "idle"
    /\ stop_flag' = [stop_flag EXCEPT ![w] = FALSE]
    /\ workers' = [workers EXCEPT ![w] = Append(@, "test")]
    /\ running' = [running EXCEPT ![w] = TRUE]
    /\ UNCHANGED <<loop_log, joiner, stop_mark>>
    /\ UNCHANGED <<pathVars, fnVars, mlVars, reloadVars, sinkVars>>

ObservesStopNever(flag) == FALSE

\* self.stop_processing_flag.is_set()
ObservesStop(flag) == flag

\* thread i of stage w evaluates the while condition
TestFlag(w, i) ==
    /\ i \in 1..Len(workers[w])
    /\ workers[w][i] = "test"
    /\ workers' = [workers EXCEPT ![w][i] =
                      IF ObservesStop(stop_flag[w]) THEN "exited" ELSE "get"]
    /\ running' = [running EXCEPT ![w] = Live(workers'[w]) /= {}]
    /\ UNCHANGED <<stop_flag, loop_log, joiner, stop_mark>>
    /\ UNCHANGED <<pathVars, fnVars, mlVars, reloadVars, sinkVars>>

\* get(timeout=1.0) raises queue.Empty: continue
GetTimesOut(w, i) ==
    /\ i \in 1..Len(workers[w])
    /\ workers[w][i] = "get"
    /\ QueueOf(w) = <<>>
    /\ workers' = [workers EXCEPT ![w][i] = "test"]
    /\ UNCHANGED <<stop_flag, running, loop_log, joiner, stop_mark>>
    /\ UNCHANGED <<pathVars, fnVars, mlVars, reloadVars, sinkVars>>

\* get returns an item and the body of the loop runs on it
GetReturns(w, i) ==
    /\ i \in 1..Len(workers[w])
    /\ workers[w][i] = "get"
    /\ \/ w = "flow" /\ FlowIteration
       \/ w = "rules" /\ RulesIteration
       \/ w = "ml" /\ DetectionStep
    /\ workers' = [workers EXCEPT ![w][i] = "test"]
    /\ UNCHANGED <<joiner, stop_mark, reloadVars, sinkVars>>

\* stop_processing / stop_detection up to the join: sets the flag
StopStage(w) ==
    /\ joiner[w] = "idle"
    /\ stop_flag' = [stop_flag EXCEPT ![w] = TRUE]
    /\ stop_mark' = [stop_mark EXCEPT ![w] = Len(loop_log[w])]
    /\ joiner' = [joiner EXCEPT ![w] =
                     IF workers[w] /= <<>> THEN "joining" ELSE "idle"]
    /\ UNCHANGED <<running, loop_log, workers>>
    /\ UNCHANGED <<pathVars, fnVars, mlVars, reloadVars, sinkVars>>

\* join returns because the thread last started has ended
JoinReturns(w) ==
    /\ joiner[w] = "joining"
    /\ workers[w][Len(workers[w])] = "exited"
    /\ joiner' = [joiner EXCEPT ![w] = "idle"]
    /\ UNCHANGED <<stop_flag, running, loop_log, workers, stop_mark>>
    /\ UNCHANGED <<pathVars, fnVars, mlVars, reloadVars, sinkVars>>

\* join(timeout=1.0) returns because the second is over
JoinTimesOut(w) ==
    /\ joiner[w] = "joining"
    /\ workers[w][Len(workers[w])] /= "exited"
    /\ joiner' = [joiner EXCEPT ![w] = "idle"]
    /\ UNCHANGED <<stop_flag, running, loop_log, workers, stop_mark>>
    /\ UNCHANGED <<pathVars, fnVars, mlVars, reloadVars, sinkVars>>

\* the system as constructed: no stage started yet
InitConstructed ==
    /\ InitPath /\ InitFn /\ InitMl
    /\ stop_flag = [w \in Stages |-> FALSE]
    /\ running = [w \in Stages |-> FALSE]
    /\ loop_log = [w \in Stages |-> <<>>]
    /\ workers = [w \in Stages |-> <<>>]
    /\ joiner = [w \in Stages |-> "idle"]
    /\ stop_mark = [w \in Stages |-> 0]
    /\ InitReload
    /\ InitSink

\* The stages share no flag and no thread, so the threads of one stage are
\* followed at a time: arg.stage, with the other stages left as started.
InitStage ==
    /\ InitPath /\ InitMl /\ InitLoops
    /\ arg \in {[stage |-> w] : w \in Stages}
    /\ res = <<>>

CaptureStop == Capture(FlowPackets(captured + 1), MaxStopPackets)
PutStopBatches == PutFeatures({1}, MaxStopBatches)

Test == TestFlag(arg.stage, 1)
Poll == GetTimesOut(arg.stage, 1)
Take == GetReturns(arg.stage, 1)

\* IntrusionDetectionSystem.stop: the stage is stopped once
StopOnce == ~stop_flag[arg.stage] /\ StopStage(arg.stage)

Joined == JoinReturns(arg.stage)
JoinTimeout == JoinTimesOut(arg.stage)

NextStop ==
    \/ CaptureStop \/ PutStopBatches
    \/ Test \/ Poll \/ Take
    \/ StopOnce \/ Joined \/ JoinTimeout

\* a stage as IntrusionDetectionSystem.start leaves it, up to its stop
SpecStop == InitStage /\ [][NextStop]_vars

\* threads get scheduled, and get and join carry a timeout of one second
SpecStopLive ==
    /\ SpecStop
    /\ WF_vars(Test \/ Poll \/ Take)
    /\ WF_vars(Joined \/ JoinTimeout)

-----
(* C12 *)

\* C12: once stop has set the flag of a stage its worker completes at most
\* the one item whose get was under way, takes none after it has seen the
\* flag, and leaves its loop; the stop call leaves join, whether or not the
\* worker has ended.
C12_Cancellation ==
    /\ [](\A w \in Stages :
             stop_flag[w] => Len(loop_log[w]) <= stop_mark[w] + 1)
    /\ \A w \in Stages : stop_flag[w] ~> (Live(workers[w]) = {})
    /\ \A w \in Stages : (joiner[w] = "joining") ~> (joiner[w] = "idle")

\* the stage was stopped while its worker waited in get, the worker
\* processed the item that arrived and then left its loop, and the stop
\* call has returned
C12_Witness ==
    /\ stop_flag[arg.stage]
    /\ workers[arg.stage] = <<"exited">>
    /\ Len(loop_log[arg.stage]) = stop_mark[arg.stage] + 1
    /\ joiner[arg.stage] = "idle"

-----------------------------------------------------------------------------
(* load_rules and add_rule while the rule worker evaluates, step by step *)

\* the rule files a reload reads, and the rules add_rule is given
ReloadFiles == {<<RuleSrc, RuleDst>>, <<RuleProto>>}
AddedRules == {RulePattern}

\* the list the for loop of the running _check_rules iterates: the list
\* self.rules names now, or the one it named when the loop began
IteratedList == IF evaluation.live THEN rules ELSE evaluation.list

\* load_rules, line 33: self.rules = [] names a new, empty list; a for loop
\* under way keeps the list it began with
LoadBegin ==
    /\ ~loader.active
    /\ \E rule_defs \in ReloadFiles :
           loader' = [active |-> TRUE, pending |-> rule_defs]
    /\ rules' = <<>>
    /\ evaluation' = IF evaluation.active /\ evaluation.live
                      THEN [evaluation EXCEPT !.live = FALSE, !.list = rules]
                      ELSE evaluation
    /\ UNCHANGED <<now, captured, packet_queue, feature_queue, alert_queue,
                   flow_stats, last_check, ingested, checked>>
    /\ UNCHANGED <<snapshots, evaluations>>
    /\ UNCHANGED <<fnVars, mlVars, loopVars, threadVars, sinkVars>>

\* load_rules, lines 34-38: one turn of its for loop
LoadAppend ==
    /\ loader.active
    /\ rules' = Append(rules, Compiled(Head(loader.pending)))
    /\ loader' = IF Len(loader.pending) = 1 THEN NoLoad
                  ELSE [loader EXCEPT !.pending = Tail(@)]
    /\ snapshots' = IF Len(loader.pending) = 1 THEN snapshots \cup {rules'}
                     ELSE snapshots
    /\ UNCHANGED <<now, captured, packet_queue, feature_queue, alert_queue,
                   flow_stats, last_check, ingested, checked>>
    /\ UNCHANGED <<evaluation, evaluations>>
    /\ UNCHANGED <<fnVars, mlVars, loopVars, threadVars, sinkVars>>

\* add_rule: appends to the list self.rules names
AddRule ==
    /\ ~loader.active
    /\ Len(rules) < MaxRules
    /\ \E rule \in AddedRules : rules' = Append(rules, Compiled(rule))
    /\ snapshots' = snapshots \cup {rules'}
    /\ UNCHANGED <<now, captured, packet_queue, feature_queue, alert_queue,
                   flow_stats, last_check, ingested, checked>>
    /\ UNCHANGED <<loader, evaluation, evaluations>>
    /\ UNCHANGED <<fnVars, mlVars, loopVars, threadVars, sinkVars>>

\* the rule worker gets a packet; _check_rules returns at once without a
\* raw packet and otherwise begins its for loop over self.rules
EvalBegin ==
    /\ InLoop("rules")
    /\ ~evaluation.active
    /\ packet_queue /= <<>>
    /\ LET packet_info == Head(packet_queue)
       IN  IF packet_info.raw_packet.present
           THEN /\ evaluation' = [NoEvaluation EXCEPT !.active = TRUE,
                                      !.packet_info = packet_info]
                /\ UNCHANGED <<checked, loopVars>>
           ELSE /\ checked' = Append(checked, Taken(packet_info))
                /\ Iterated("rules", FALSE)
                /\ UNCHANGED evaluation
    /\ packet_queue' = Tail(packet_queue)
    /\ UNCHANGED <<now, captured, feature_queue, alert_queue, flow_stats,
                   rules, last_check, ingested>>
    /\ UNCHANGED <<loader, snapshots, evaluations>>
    /\ UNCHANGED <<fnVars, mlVars, threadVars, sinkVars>>

\* one turn of the for loop of _check_rules, or its end
EvalStep ==
    /\ evaluation.active
    /\ IF evaluation.idx < Len(IteratedList)
       THEN LET rule == IteratedList[evaluation.idx + 1]
                packet_info == evaluation.packet_info
            IN  /\ alert_queue' =
                       IF RuleFires(rule, packet_info)
                       THEN Append(alert_queue, SignatureAlert(rule, packet_info))
                       ELSE alert_queue
                /\ evaluation' = [evaluation EXCEPT !.idx = @ + 1,
                                                    !.seen = Append(@, rule)]
                /\ UNCHANGED <<checked, evaluations, loopVars>>
       ELSE /\ evaluations' = Append(evaluations, evaluation.seen)
            /\ evaluation' = NoEvaluation
            /\ checked' = Append(checked, Taken(evaluation.packet_info))
            /\ Iterated("rules", FALSE)
            /\ UNCHANGED alert_queue
    /\ UNCHANGED <<now, captured, packet_queue, feature_queue, flow_stats,
                   rules, last_check, ingested>>
    /\ UNCHANGED <<loader, snapshots>>
    /\ UNCHANGED <<fnVars, mlVars, threadVars, sinkVars>>

\* a started rule engine that loaded one rule at construction
InitReloading ==
    /\ InitFn /\ InitMl /\ InitSink
    /\ stop_flag = [w \in Stages |-> FALSE]
    /\ running = [w \in Stages |-> TRUE]
    /\ loop_log = [w \in Stages |-> <<>>]
    /\ workers = [w \in Stages |-> <<"test">>]
    /\ joiner = [w \in Stages |-> "idle"]
    /\ stop_mark = [w \in Stages |-> 0]
    /\ now = 0
    /\ captured = 0
    /\ packet_queue = <<>>
    /\ feature_queue = <<>>
    /\ alert_queue = <<>>
    /\ flow_stats = <<>>
    /\ rules = LoadRules(<<RuleSrc>>)
    /\ last_check = NoTime
    /\ ingested = <<>>
    /\ checked = <<>>
    /\ loader = NoLoad
    /\ evaluation = NoEvaluation
    /\ snapshots = {LoadRules(<<RuleSrc>>)}
    /\ evaluations = <<>>

CaptureReload == Capture(FlowPackets(captured + 1), MaxReloadPackets)

NextReload ==
    \/ CaptureReload \/ LoadBegin \/ LoadAppend \/ AddRule
    \/ EvalBegin \/ EvalStep

SpecReload == InitReloading /\ [][NextReload]_vars

-----------------------------------------------------------------------------
(* C13 *)

\* C13: every completed evaluation of a packet saw one complete rule set:
\* a set that a completed load_rules or add_rule left, whole.
C13_OneCompleteRuleSet ==
    \A i \in 1..Len(evaluations) : evaluations[i] \in snapshots

-----------------------------------------------------------------------------
(* C14 *)

\* C14: after any sequence of batches the training corpus holds at most
\* max_training_samples (10,000) vectors.
C14_CorpusBounded == training_len <= max_training_samples

-----------------------------------------------------------------------------
(* start_processing and stop_processing of the Flow Tracker, in any order *)

StartFlow == Len(workers["flow"]) < MaxThreads /\ StartStage("flow")
StopFlow == StopStage("flow")
FlowTest == \E i \in 1..MaxThreads : TestFlag("flow", i)
FlowPoll == \E i \in 1..MaxThreads : GetTimesOut("flow", i)
FlowTake == \E i \in 1..MaxThreads : GetReturns("flow", i)
FlowJoined == JoinReturns("flow")
FlowJoinTimeout == JoinTimesOut("flow")
CaptureRestart == Capture(FlowPackets(captured + 1), MaxRestartPackets)

NextRestart ==
    \/ StartFlow \/ StopFlow \/ FlowJoined \/ FlowJoinTimeout
    \/ FlowTest \/ FlowPoll \/ FlowTake
    \/ CaptureRestart

SpecRestart == InitConstructed /\ [][NextRestart]_vars

-----------------------------------------------------------------------------
(* C15 *)

\* C15: across any sequence of start_processing and stop_processing calls
\* at most one thread of the Flow Tracker is in the consumer loop.
C15_OneFlowWorker == Cardinality(Live(workers["flow"])) <= 1

-----------------------------------------------------------------------------
(* The consumers of the alert queue *)

max_alerts == 1000

\* self.recent_alerts[-self.max_alerts:]
LastAlerts(alerts) ==
    IF Len(alerts) > max_alerts
    THEN SubSeq(alerts, Len(alerts) - max_alerts + 1, Len(alerts))
    ELSE alerts

\* one iteration of AlertSystem._process_queue that gets an alert
AlertWorker ==
    /\ alert_queue /= <<>>
    /\ handled' = Append(handled, Head(alert_queue))
    /\ alert_queue' = Tail(alert_queue)
    /\ UNCHANGED <<now, captured, packet_queue, feature_queue, flow_stats,
                   rules, last_check, ingested, checked>>
    /\ UNCHANGED <<recent_alerts, fnVars, mlVars, loopVars, threadVars,
                   reloadVars>>

\* one iteration of IDSApiService._collect_alerts that gets an alert
CollectAlerts ==
    /\ alert_queue /= <<>>
    /\ recent_alerts' = LastAlerts(Append(recent_alerts, Head(alert_queue)))
    /\ alert_queue' = Tail(alert_queue)
    /\ UNCHANGED <<now, captured, packet_queue, feature_queue, flow_stats,
                   rules, last_check, ingested, checked>>
    /\ UNCHANGED <<handled, fnVars, mlVars, loopVars, threadVars, reloadVars>>

\* the system started with one rule that every packet from 10.0.0.1 fires
InitAlerting ==
    /\ InitFn /\ InitMl /\ InitLoops
    /\ now = 0
    /\ captured = 0
    /\ packet_queue = <<>>
    /\ feature_queue = <<>>
    /\ alert_queue = <<>>
    /\ flow_stats = <<>>
    /\ rules = LoadRules(<<RuleSrc>>)
    /\ last_check = NoTime
    /\ ingested = <<>>
    /\ checked = <<>>

CaptureSink == Capture(FlowPackets(captured + 1), MaxSinkPackets)

NextSink ==
    \/ CaptureSink \/ RulesWorker
    \/ PutLoopBatches \/ DetectionWorker
    \/ AlertWorker \/ CollectAlerts

\* both alert producers, and both threads that read the alert queue
SpecSink == InitAlerting /\ [][NextSink]_vars

-----------------------------------------------------------------------------
(* C16 *)

\* C16: no alert put on the alert queue is taken away by a consumer other
\* than AlertSystem: every alert that has left the queue was handled by
\* AlertSystem._process_alert, none sits in the API service's list instead.
C16_AlertsReachSink == recent_alerts = <<>>

-----------------------------------------------------------------------------
(* Packets stamped by a wall clock that is set back *)

\* datetime.now() is the wall clock: an adjustment sets it back
ClockSetBack ==
    /\ now - 1 \in Clock
    /\ now' = now - 1
    /\ UNCHANGED <<captured, packet_queue, feature_queue, alert_queue,
                   flow_stats, rules, last_check, ingested, checked>>
    /\ UNCHANGED <<fnVars, mlVars, loopVars, otherVars>>

CaptureSkew == Capture(FlowPackets(captured + 1), MaxSkewPackets)

NextSkew == Tick \/ ClockSetBack \/ CaptureSkew \/ FlowWorker

SpecSkew == Init /\ [][NextSkew]_vars

-----------------------------------------------------------------------------
(* C17 *)

\* C17: every element of every flow's interval sequence is >= 0, also
\* after packets whose timestamp is equal to or earlier than the flow's
\* last-seen time.
C17_IntervalsNonNegative ==
    \A e \in 1..Len(flow_stats) :
        \A i \in 1..Len(flow_stats[e].stats.intervals) :
            flow_stats[e].stats.intervals[i] >= 0

-----------------------------------------------------------------------------
(* A stream of packets of distinct flows *)

\* the i-th packet of the stream: between the same two hosts, over a
\* protocol number of its own, so every packet opens a flow
DistinctFlowPackets(i) == {Packet(TRUE, Addr1, Addr2, i, 100, None)}

CaptureTable == Capture(DistinctFlowPackets(captured + 1), MaxTablePackets)

NextTable == Tick \/ CaptureTable \/ FlowWorker

SpecTable == Init /\ [][NextTable]_vars

-----------------------------------------------------------------------------
(* C18 *)

\* C18: the number of flows in the flow table never exceeds a configured
\* capacity (here TableCapacity), also under a stream of distinct flow
\* keys that each stay below 5 packets.
C18_FlowTableBounded == Len(flow_stats) <= TableCapacity

-----------------------------------------------------------------------------
(* The flow tracker while time passes, with and without further packets *)

CaptureExpiry ==
    Capture({Packet(TRUE, Addr1, Addr2, 6, 100, None)}, MaxExpiryPackets)

\* the clock values looked at: a burst, and a time more than a window
\* after it
ExpiryClock == {0, 1, 66}

\* time passes
Elapse ==
    /\ \E t \in ExpiryClock : t > now /\ now' = t
    /\ UNCHANGED <<captured, packet_queue, feature_queue, alert_queue,
                   flow_stats, rules, last_check, ingested, checked>>
    /\ UNCHANGED <<fnVars, mlVars, loopVars, otherVars>>

NextExpiry == Elapse \/ CaptureExpiry \/ FlowWorker

SpecExpiry == Init /\ [][NextExpiry]_vars

\* time passes and the worker thread is scheduled; whether another packet
\* arrives is up to the network
SpecExpiryLive == SpecExpiry /\ WF_vars(Elapse) /\ WF_vars(FlowWorker)

\* a flow of the table is mature and has been idle for more than the window
MatureIdle ==
    \E e \in 1..Len(flow_stats) :
        Mature(flow_stats[e].stats) /\ Expired(flow_stats[e].stats, now)

-----------------------------------------------------------------------------
(* C19 *)

\* C19: while the worker runs, a mature flow that has been idle for more
\* than the window is eventually drained: emitted and removed from the
\* table, even if no further packet arrives.
C19_ExpiryLiveness == MatureIdle ~> ~MatureIdle

-----------------------------------------------------------------------------
(* C20 *)

\* the rule names a source address, destination address or protocol that
\* is not the event's (an absent field equals no rule value)
Mismatch(rule, packet_info) ==
    \/ Has(rule, "src_ip") /\ rule.src_ip /= packet_info.src_ip
    \/ Has(rule, "dst_ip") /\ rule.dst_ip /= packet_info.dst_ip
    \/ Has(rule, "protocol") /\ rule.protocol /= packet_info.protocol

\* C20: a rule whose source address, destination address or protocol
\* differs from the event's field emits no alert for that event, also when
\* the event's field is absent or its protocol number is 0.
C20_FilterSkip ==
    res /= <<>> =>
        \A i \in 1..Len(rules) :
            Mismatch(rules[i], arg) => AlertsOf(rules[i], res[1]) = <<>>

-----------------------------------------------------------------------------
(* C21 *)

\* lines 73-84: none of the three filter conditions skips the rule
FiltersPass(rule, packet_info) ==
    /\ SrcFilterPasses(rule, packet_info)
    /\ DstFilterPasses(rule, packet_info)
    /\ ProtoFilterPasses(rule, packet_info)

\* line 87: the event's packet carries a Raw layer
HasPayload(packet_info) ==
    packet_info.raw_packet.present /\ packet_info.raw_packet.has_raw

\* a rule with a payload pattern alerts only on a payload that matches
PatternRulesRequireMatch ==
    \A i \in 1..Len(rules) :
        Has(rules[i], "compiled_pattern") =>
            /\ Len(AlertsOf(rules[i], res[1])) <= 1
            /\ AlertsOf(rules[i], res[1]) /= <<>> =>
                   /\ FiltersPass(rules[i], arg)
                   /\ HasPayload(arg)
                   /\ Search(rules[i].pattern, Decode(arg.raw_packet.load))
            /\ ~HasPayload(arg) => AlertsOf(rules[i], res[1]) = <<>>

\* a rule without a payload pattern alerts once when its filters pass
FilterOnlyRulesAlertOnce ==
    \A i \in 1..Len(rules) :
        (~Has(rules[i], "compiled_pattern") /\ FiltersPass(rules[i], arg))
            => Len(AlertsOf(rules[i], res[1])) = 1

\* C21 (as claimed): a rule with a payload pattern emits an alert for an
\* event only if its address/protocol filters pass, the event has a payload
\* and the pattern matches the decoded payload, and emits nothing for an
\* event with no payload; a rule with no payload pattern emits exactly one
\* alert once its address/protocol filters pass.
C21_PatternRulesRequireMatch ==
    res /= <<>> => PatternRulesRequireMatch /\ FilterOnlyRulesAlertOnce

-----------------------------------------------------------------------------
(* load_rules on one rule file *)

MaxFileRules == 3

\* "(": a pattern re.compile rejects with re.error
TextOpen == <<40>>
RuleBadPattern == [id |-> "bad", pattern |-> TextOpen]

\* re.compile(pattern) raises: the pattern's parentheses do not pair up
CompileRaises(pattern) ==
    LET IsOpen(c) == c = 40
        IsClose(c) == c = 41
    IN  Len(SelectSeq(pattern, IsOpen)) /= Len(SelectSeq(pattern, IsClose))

\* lines 37-38 raise for this rule; on a bare string "'pattern' in rule" is
\* a substring test, false for the strings here, and nothing is compiled
AppendRaises(rule) ==
    IsMapping(rule) /\ Has(rule, "pattern") /\ CompileRaises(rule.pattern)

\* the index of the first rule definition at which the for loop of
\* load_rules raises, 0 when it runs to its end
LoadAbortsAt(rule_defs) ==
    IF \E i \in 1..Len(rule_defs) : AppendRaises(rule_defs[i])
    THEN CHOOSE i \in 1..Len(rule_defs) :
            /\ AppendRaises(rule_defs[i])
            /\ \A j \in 1..(i - 1) : ~AppendRaises(rule_defs[j])
    ELSE 0

\* load_rules: self.rules when it returns, and whether an exception
\* escapes it. open or yaml.safe_load raising jumps to the except clause
\* before line 34, with self.rules untouched; a raise inside the for loop
\* jumps there with the rules appended so far.
load_rules(old, rules_file) ==
    IF ~rules_file.readable THEN [rules |-> old, escaped |-> FALSE]
    ELSE LET stop == LoadAbortsAt(rules_file.rule_defs)
             kept == IF stop = 0 THEN rules_file.rule_defs
                     ELSE SubSeq(rules_file.rule_defs, 1, stop - 1)
         IN  [rules |-> LoadRules(kept), escaped |-> FALSE]

RECURSIVE RuleLists(_)
\* the rule lists of at most n definitions a YAML file may hold
RuleLists(n) ==
    IF n = 0 THEN {<<>>}
    ELSE RuleLists(n - 1)
         \cup {Append(l, r) : l \in {x \in RuleLists(n - 1) : Len(x) = n - 1},
                              r \in {RuleSrc, RulePattern, RuleBadPattern, ScalarRule}}

\* a file that parses to a list of rule definitions, or one that open or
\* yaml.safe_load rejects
LoadFiles ==
    {[readable |-> TRUE, rule_defs |-> l] : l \in RuleLists(MaxFileRules)}
    \cup {[readable |-> FALSE, rule_defs |-> <<>>]}

\* a rule engine as the constructor leaves it without a rule file, or one
\* that already holds a rule; load_rules is about to be called on arg
InitLoad ==
    /\ InitMl /\ InitLoops
    /\ now = 0
    /\ captured = 0
    /\ arg \in LoadFiles
    /\ packet_queue = <<>>
    /\ feature_queue = <<>>
    /\ alert_queue = <<>>
    /\ flow_stats = <<>>
    /\ rules \in {<<>>, LoadRules(<<RuleProto>>)}
    /\ last_check = NoTime
    /\ ingested = <<>>
    /\ checked = <<>>
    /\ res = <<>>

Load ==
    /\ res = <<>>
    /\ LET result == load_rules(rules, arg)
       IN  /\ rules' = result.rules
           /\ res' = <<[escaped |-> result.escaped]>>
    /\ UNCHANGED <<now, captured, packet_queue, feature_queue, alert_queue,
                   flow_stats, last_check, ingested, checked, arg>>
    /\ UNCHANGED <<mlVars, loopVars, otherVars>>

NextLoad == Load

SpecLoad == InitLoad /\ [][NextLoad]_vars

-----------------------------------------------------------------------------
(* C22 *)

\* a rule definition is a mapping whose pattern, if any, compiles
WellFormed(rule) ==
    IsMapping(rule) /\ (Has(rule, "pattern") => ~CompileRaises(rule.pattern))

\* C22 (as claimed): after load_rules on a file that parses, the active rule
\* set holds exactly the well-formed rules of the file, in order, those
\* before and those after a malformed one; after load_rules on a file that
\* cannot be read the active rule set is empty; no exception escapes.
C22_RuleLoadingErrors ==
    res /= <<>> =>
        /\ arg.readable =>
               rules = LoadRules(SelectSeq(arg.rule_defs, WellFormed))
        /\ ~arg.readable => rules = <<>>
        /\ ~res[1].escaped

-----------------------------------------------------------------------------
(* The anomaly engine on batches that may be empty *)

MaxScoreBatches == 3

\* the lengths of the batches put on the feature queue, the empty one too
ScoreSizes == {0, 1, 999}

PutScoreBatches == PutFeatures(ScoreSizes, MaxScoreBatches)

NextScore == PutScoreBatches \/ DetectionWorker

SpecScore == InitML /\ [][NextScore]_vars

-----------------------------------------------------------------------------
(* C23 *)

\* this step is an iteration of _detection_loop that got a batch
DetectionIterates == loop_log'["ml"] /= loop_log["ml"]

\* the iteration scored nothing and put no alert
NothingScored == scored' = scored /\ alert_queue' = alert_queue

\* C23 (as claimed): an iteration of the detection loop on a batch that
\* arrives while self.model is None scores nothing and puts no alert, also
\* when that batch triggers the first training; an iteration on an empty
\* batch changes neither corpus nor model nor scaler and puts no alert.
C23_NoScoringBeforeModel ==
    [][DetectionIterates =>
           /\ ~model.present => NothingScored
           /\ Head(batch_queue) = 0 =>
                  /\ training_len' = training_len
                  /\ model' = model /\ scaler' = scaler
                  /\ NothingScored]_vars

-----------------------------------------------------------------------------
(* C24 *)

\* the engine as __init__ left it: the detection loop has taken no batch
JustConstructed == loop_log["ml"] = <<>>

\* the detection loop has taken its first batch and no other
FirstBatchDone == Len(loop_log["ml"]) = 1

\* C24 (as claimed): constructed where both persisted artifacts exist, the
\* engine holds the loaded scorer and the loaded scaler and, in detection
\* mode, scores its first batch; constructed where no model is persisted,
\* it holds neither; in every state a present model comes with a present
\* scaler.
C24_ModelPersistence ==
    /\ (boot = "both" /\ JustConstructed) => Trained
    /\ (boot = "both" /\ ~learning_mode /\ FirstBatchDone) => Len(scored) = 1
    /\ (boot = "none" /\ JustConstructed) => ~model.present /\ ~scaler.present
    /\ model.present => scaler.present

-----------------------------------------------------------------------------
(* C25 *)

\* this iteration called _train_model
FitAttempted == Len(fit_log') = Len(fit_log) + 1

\* no model, and the corpus has reached max_training_samples
UntrainedAtCapacity ==
    ~model.present /\ training_len >= max_training_samples

\* once without a model at capacity, no later step calls _train_model or
\* sets a model (holds in SpecML)
UntrainedAtCapacityStays ==
    [][UntrainedAtCapacity => (UntrainedAtCapacity' /\ fit_log' = fit_log)]_vars

\* C25 (as claimed): every iteration of the detection loop on a non-empty
\* batch that finds no model and leaves the corpus with at least 1,000
\* vectors calls _train_model, also when the corpus has reached its
\* capacity; so an engine without a model does not stay at capacity without
\* further fit attempts.
C25_TrainingTrigger ==
    [][(/\ DetectionIterates
        /\ Head(batch_queue) > 0
        /\ ~model.present
        /\ training_len' >= MinTrainingSamples) => FitAttempted]_vars

-----------------------------------------------------------------------------
(* The flow tracker on packets with and without an IP layer *)

MaxStatePackets == 6

\* what sniff() may hand over as its i-th packet: a packet of one of two
\* conversations, or a packet without an IP layer
StatePackets(i) ==
    {Packet(TRUE, Addr1, Addr2, 6, SizeAt(i), None),
     Packet(TRUE, Addr10, Addr1, 17, SizeAt(i), None),
     Packet(FALSE, None, None, NoneNum, 60, None)}

CaptureState == Capture(StatePackets(captured + 1), MaxStatePackets)

NextState == Elapse \/ CaptureState \/ FlowWorker

SpecState == Init /\ [][NextState]_vars

-----------------------------------------------------------------------------
(* C26 *)

\* the counters and sequences of one flow agree
Consistent(stats) ==
    /\ stats.packet_count = Len(stats.packet_sizes)
    /\ stats.packet_count = Len(stats.intervals) + 1
    /\ stats.byte_count = SeqSum(stats.packet_sizes)
    /\ stats.start_time /= NoTime
    /\ stats.last_time /= NoTime

\* the event without its source address, its destination address, or both
Lacking(packet_info) ==
    {[packet_info EXCEPT !.src_ip = None],
     [packet_info EXCEPT !.dst_ip = None],
     [packet_info EXCEPT !.src_ip = None, !.dst_ip = None]}

\* this step is an iteration of the flow worker on an event without a
\* source or destination address
IngestsAddressless ==
    /\ Len(ingested') = Len(ingested) + 1
    /\ ~(Truthy(Head(packet_queue).src_ip) /\ Truthy(Head(packet_queue).dst_ip))

\* C26: after any sequence of ingests and expiry checks every flow in the
\* table has packet_count = len(packet_sizes) = len(intervals) + 1,
\* byte_count = sum(packet_sizes) and start_time and last_time set;
\* _update_flow_stats on an event lacking an address returns the table as
\* it was, so an iteration on such an event changes the table only by its
\* expiry check.
C26_FlowStateConsistency ==
    /\ [](\A e \in 1..Len(flow_stats) : Consistent(flow_stats[e].stats))
    /\ [](\A q \in 1..Len(packet_queue) :
             \A packet_info \in Lacking(packet_queue[q]) :
                 UpdateFlowStats(flow_stats, packet_info) = flow_stats)
    /\ [][IngestsAddressless => flow_stats' = Remaining(flow_stats, now)]_vars

\* an event without addresses was ingested after a flow had received two
\* packets, and the table holds two flows
C26_Witness ==
    /\ Len(flow_stats) = 2
    /\ \E e \in 1..Len(flow_stats) : flow_stats[e].stats.packet_count >= 2
    /\ \E i \in 2..Len(ingested) :
           ingested[i].flow = None /\ ingested[i - 1].flow /= None

=============================================================================
